---- MODULE Spec2Model ----
(***************************************************************************)
(* linked-futures: linked_block! declares a one-of type and an identifier  *)
(* enum; link_futures! pushes one tagged task per `key => value` entry     *)
(* into a FuturesUnordered and returns                                     *)
(*     async move { linked.next().await.unwrap() }.                        *)
(*                                                                         *)
(* The model is the run-time behaviour of that expansion under block_on:   *)
(* the task set with its ready-to-run queue (FIFO: tasks are enqueued by   *)
(* push and again by every wake), the operations of the crate's test and   *)
(* of its documented example as small programs, and the timers that wake   *)
(* them.  One poll of the combined future is a run of Dequeue / operation  *)
(* steps ended by QueueEmpty or Complete; timers fire between any two      *)
(* steps.  Static typing of an invocation is not part of the model.        *)
(***************************************************************************)
EXTENDS Naturals, Sequences, FiniteSets

\* Number of Interval ticks the model lets occur.
MaxTicks == 2

\* mpsc::channel::<Instant>(1): the buffer of both channels of the example.
Buffer == 1

VARIABLES
  variants,   \* linked_block!: the declared case names, in order
  entries,    \* link_futures!: the `key => value` entries, in order
  phase,      \* "declared" | "built" | "racing" | "completed" | "panicked"
              \* | "dropped"
  linked,     \* FuturesUnordered: the tasks it holds (indices of entries)
  queue,      \* FuturesUnordered: its ready-to-run queue
  running,    \* the task poll_next is polling now (0: none)
  polling,    \* the combined future is inside poll
  notified,   \* block_on: the waker of the combined future was woken
  pc,         \* each operation's position
  outcome,    \* the (identifier, result) pairs the combined future returned
  fired,      \* the delay operations whose deadline has elapsed
  ticks,      \* Interval: ticks elapsed so far
  due,        \* Interval: ticks elapsed and not yet taken by the generator
  hold,       \* the instant an operation holds between its receive and send
  ch1,        \* the messages in channel 1 (tx1 -> rx1)
  ch2,        \* the messages in channel 2 (tx2 -> rx2)
  parked1,    \* tx1 is parked (it sent beyond the buffer)
  parked2,    \* tx2 is parked
  printed     \* the instants the reader has printed

vars == <<variants, entries, phase, linked, queue, running, polling, notified,
          pc, outcome, fired, ticks, due, hold, ch1, ch2, parked1, parked2,
          printed>>

Range(s) == {s[i] : i \in DOMAIN s}

\* The results an operation may produce: () as in the tests, or a failure
\* value of the caller's result type.
Results == {"unit", "Err"}

\* linked_block!(SimpleBlock, ...; Never, Stop) of the tests
SimpleBlock == <<"Never", "Stop">>

\* linked_block!(PeriodicStoppableSender, ...; Forwarder, Reader, Generator, Stop)
PeriodicStoppableSender == <<"Forwarder", "Reader", "Generator", "Stop">>

\* The shapes declared: no case, one case, the tests' and the example's.
Shapes == {<<>>, <<"Only">>, SimpleBlock, PeriodicStoppableSender}

\* The operations as the source writes them:
\*   ready      async { }                          completes when first polled
\*   never      async { let _ = rx.await; }        its oneshot is never sent
\*   delay      async { delay(deadline).await; }   completes once the deadline elapsed
\*   generator, forwarder, reader                  the example's three loops
Operations(shape, key) ==
  IF shape = PeriodicStoppableSender
  THEN CASE key = "Generator" -> {[kind |-> "generator", val |-> "unit"]}
         [] key = "Forwarder" -> {[kind |-> "forwarder", val |-> "unit"]}
         [] key = "Reader"    -> {[kind |-> "reader", val |-> "unit"]}
         [] OTHER             -> {[kind |-> "delay", val |-> "unit"]}
  ELSE {[kind |-> k, val |-> v] : k \in {"ready", "delay"}, v \in Results}
       \cup {[kind |-> "never", val |-> "unit"]}

Perms(n) == {p \in [1..n -> 1..n] : \A i, j \in 1..n : p[i] = p[j] => i = j}

\* The invocations of link_futures! over a shape: one entry per declared
\* case, in any order, each bound to an operation.
Instances(shape) ==
  LET n == Len(shape)
      Bindings == {b \in [1..n -> UNION {Operations(shape, shape[k]) : k \in 1..n}] :
                     \A k \in 1..n : b[k] \in Operations(shape, shape[k])}
  IN  {[i \in 1..n |-> [key |-> shape[p[i]], kind |-> b[p[i]].kind, val |-> b[p[i]].val]] :
         p \in Perms(n), b \in Bindings}

N == Len(entries)

Init ==
  /\ variants \in Shapes
  /\ entries \in Instances(variants)
  /\ phase = "declared"
  /\ linked = {}
  /\ queue = <<>>
  /\ running = 0
  /\ polling = FALSE
  /\ notified = FALSE
  /\ pc = [i \in 1..Len(entries) |-> "start"]
  /\ outcome = <<>>
  /\ fired = {}
  /\ ticks = 0
  /\ due = 0
  /\ hold = [i \in 1..Len(entries) |-> 0]
  /\ ch1 = <<>>
  /\ ch2 = <<>>
  /\ parked1 = FALSE
  /\ parked2 = FALSE
  /\ printed = <<>>

\* one_of_futures::impl_one_of!($one_of_block; $($variants),*): the variants
\* of the generated one-of type.
OneOf(shape) == shape

\* enum $identifier_enum { $($variants),* }: the values of the identifier enum.
IdentifierEnum(shape) == shape

\* $one_of_block::$key(...): the variant that wraps the task of entry i.
Variant(i) == entries[i].key

\* Mutant: the tag is taken at the entry's position in the declaration.
IdentifierByPosition(i) == variants[i]

\* $identifier_enum::$key: the tag the wrapping async block pairs with the result.
Identifier(i) == entries[i].key

\* Mutant: the wrapper replaces a failure by the default result.
WrappedMasked(i) ==
  [id |-> Identifier(i),
   result |-> IF entries[i].val = "Err" THEN "unit" ELSE entries[i].val]

\* Mutant: every task is tagged with the key of the first entry.
WrappedFirstKey(i) == [id |-> Identifier(1), result |-> entries[i].val]

\* async { ($identifier_enum::$key, $value.await) }: the output of task i.
Wrapped(i) == [id |-> Identifier(i), result |-> entries[i].val]

\* The task of the given kind that waits at the given position (0: none).
Waiter(kind, at) ==
  IF \E i \in linked : entries[i].kind = kind /\ pc[i] \in at
  THEN CHOOSE i \in linked : entries[i].kind = kind /\ pc[i] \in at
  ELSE 0

\* Mutant: a wake that arrives while the set is being polled is lost.
CanWakeIdle(j) == j \in linked /\ j \notin Range(queue) /\ j # running /\ ~polling

\* A task's waker: the task is enqueued unless it is queued already (or is
\* the one being polled, which sees the event itself).
CanWake(j) == j \in linked /\ j \notin Range(queue) /\ j # running

Enqueue(q, j) == IF CanWake(j) THEN Append(q, j) ELSE q

\* Mutant: the expansion polls the task set as soon as it is filled.
LinkFuturesEager ==
  /\ phase = "declared"
  /\ phase' = "built"
  /\ linked' = 1..N
  /\ queue' = [i \in 1..N |-> i]
  /\ polling' = TRUE
  /\ UNCHANGED <<variants, entries, running, notified, pc, outcome,
                 fired, ticks, due, hold, ch1, ch2, parked1, parked2, printed>>

\* link_futures!: FuturesUnordered::new(), one push per entry, and the
\* async move block, which is returned unpolled.
LinkFutures ==
  /\ phase = "declared"
  /\ phase' = "built"
  /\ linked' = 1..N
  /\ queue' = [i \in 1..N |-> i]
  /\ UNCHANGED <<variants, entries, running, polling, notified, pc, outcome,
                 fired, ticks, due, hold, ch1, ch2, parked1, parked2, printed>>

\* block_on(async { block.await }): the first poll of the combined future.
Await ==
  /\ phase = "built"
  /\ phase' = "racing"
  /\ polling' = TRUE
  /\ UNCHANGED <<variants, entries, linked, queue, running, notified, pc,
                 outcome, fired, ticks, due, hold, ch1, ch2, parked1, parked2,
                 printed>>

\* Mutant: the executor polls the combined future again after it returned.
RepollAfterCompletion ==
  /\ phase \in {"racing", "completed"}
  /\ ~polling
  /\ notified
  /\ polling' = TRUE
  /\ notified' = FALSE
  /\ UNCHANGED <<variants, entries, phase, linked, queue, running, pc, outcome,
                 fired, ticks, due, hold, ch1, ch2, parked1, parked2, printed>>

\* Mutant: block_on polls again whether or not it was woken.
RepollUnwoken ==
  /\ phase = "racing"
  /\ ~polling
  /\ polling' = TRUE
  /\ notified' = FALSE
  /\ UNCHANGED <<variants, entries, phase, linked, queue, running, pc, outcome,
                 fired, ticks, due, hold, ch1, ch2, parked1, parked2, printed>>

\* block_on polls again once the waker it passed was woken.
Repoll ==
  /\ phase = "racing"
  /\ ~polling
  /\ notified
  /\ polling' = TRUE
  /\ notified' = FALSE
  /\ UNCHANGED <<variants, entries, phase, linked, queue, running, pc, outcome,
                 fired, ticks, due, hold, ch1, ch2, parked1, parked2, printed>>

\* Mutant: the queued task registered first is polled next.
DequeuedFirstRegistered ==
  CHOOSE j \in Range(queue) : \A k \in Range(queue) : j <= k

\* poll_next: the task to poll next is the head of the ready-to-run queue.
Dequeued == Head(queue)

Dequeue ==
  /\ polling
  /\ running = 0
  /\ queue # <<>>
  /\ running' = Dequeued
  /\ queue' = SelectSeq(queue, LAMBDA j : j # Dequeued)
  /\ UNCHANGED <<variants, entries, phase, linked, polling, notified, pc,
                 outcome, fired, ticks, due, hold, ch1, ch2, parked1, parked2,
                 printed>>

\* Mutant: poll_next waits for a completion even when it holds no task.
NextOnEmptyPending == "Pending"

\* poll_next with nothing left to run: None if the set holds no task, and
\* Pending otherwise.
NextOnEmpty == IF linked = {} THEN "None" ELSE "Pending"

\* linked.next().await.unwrap(): None panics, Pending suspends the block.
QueueEmpty ==
  /\ polling
  /\ running = 0
  /\ queue = <<>>
  /\ polling' = FALSE
  /\ phase' = IF NextOnEmpty = "None" THEN "panicked" ELSE phase
  /\ UNCHANGED <<variants, entries, linked, queue, running, notified, pc,
                 outcome, fired, ticks, due, hold, ch1, ch2, parked1, parked2,
                 printed>>

\* Mutant: the pair is taken and the task set is polled on for the next one.
CompleteAndGoOn(i) ==
  /\ outcome' = Append(outcome, Wrapped(i))
  /\ linked' = linked \ {i}
  /\ running' = 0
  /\ pc' = [j \in DOMAIN pc |-> IF j = i THEN "done" ELSE pc[j]]
  /\ UNCHANGED <<phase, queue, polling>>

\* Mutant: the outcome is produced but the other tasks are kept and the
\* poll in progress goes on with them.
CompleteKeepLosers(i) ==
  /\ phase' = "completed"
  /\ outcome' = Append(outcome, Wrapped(i))
  /\ linked' = linked \ {i}
  /\ running' = 0
  /\ pc' = [j \in DOMAIN pc |-> IF j = i THEN "done" ELSE pc[j]]
  /\ UNCHANGED <<queue, polling>>

\* The task polled returns Ready: next() yields its pair, unwrap() and the
\* block return it, and `linked` is dropped with every other task in it.
Complete(i) ==
  /\ phase' = "completed"
  /\ outcome' = Append(outcome, Wrapped(i))
  /\ linked' = {}
  /\ queue' = <<>>
  /\ running' = 0
  /\ polling' = FALSE
  /\ pc' = [j \in DOMAIN pc |-> IF j = i THEN "done" ELSE pc[j]]

\* Mutant: a Pending task ends the poll, as awaiting the tasks in turn would.
SuspendAndReturn(i) ==
  /\ running' = 0
  /\ polling' = FALSE
  /\ UNCHANGED <<phase, outcome, linked>>

\* Mutant: a task that returns Pending is taken for one that finished.
SuspendAsReady(i) ==
  /\ running' = 0
  /\ phase' = "completed"
  /\ outcome' = Append(outcome, Wrapped(i))
  /\ linked' = {}
  /\ polling' = FALSE

\* Mutant: a task that returns Pending is released from the set.
SuspendAndRelease(i) ==
  /\ running' = 0
  /\ linked' = linked \ {i}
  /\ UNCHANGED <<phase, outcome, polling>>

\* The task polled returns Pending: poll_next goes on with the queue.
Suspend(i) ==
  /\ running' = 0
  /\ UNCHANGED <<phase, outcome, linked, polling>>

\* async { }
ReadyStep(i) ==
  /\ running = i
  /\ entries[i].kind = "ready"
  /\ Complete(i)
  /\ UNCHANGED <<variants, entries, notified, fired, ticks, due, hold, ch1, ch2,
                 parked1, parked2, printed>>

\* async { let _ = rx.await; } with _tx kept and never used
NeverStep(i) ==
  /\ running = i
  /\ entries[i].kind = "never"
  /\ pc' = [pc EXCEPT ![i] = "await_rx"]
  /\ Suspend(i)
  /\ UNCHANGED <<variants, entries, queue, notified, fired, ticks, due, hold,
                 ch1, ch2, parked1, parked2, printed>>

\* async { delay(clock::now() + duration).await; }: the first poll creates
\* the delay, whose deadline lies ahead.
DelayStep(i) ==
  /\ running = i
  /\ entries[i].kind = "delay"
  /\ IF i \in fired
     THEN Complete(i)
     ELSE /\ pc' = [pc EXCEPT ![i] = "await_delay"]
          /\ Suspend(i)
          /\ UNCHANGED queue
  /\ UNCHANGED <<variants, entries, notified, fired, ticks, due, hold, ch1, ch2,
                 parked1, parked2, printed>>

\* tx.send(instant).await on a bounded channel: poll_ready waits while the
\* sender is parked, start_send enqueues the message and parks the sender if
\* the buffer was full already, poll_flush waits until it is unparked.
DoSend(ch, instant) == Append(ch, instant)

ParkAfterSend(ch) == Len(ch) >= Buffer

\* async { while let Some(instant) = interval.next().await { tx1.send(instant).await; } }
GeneratorStep(i) ==
  /\ running = i
  /\ entries[i].kind = "generator"
  /\ CASE pc[i] = "start" ->
            /\ pc' = [pc EXCEPT ![i] = "await_tick"]
            /\ UNCHANGED <<running, phase, outcome, linked, polling, queue,
                           notified, ch1, parked1, due, hold>>
       [] pc[i] = "await_tick" /\ due > 0 ->
            /\ due' = due - 1
            /\ hold' = [hold EXCEPT ![i] = ticks - due + 1]
            /\ pc' = [pc EXCEPT ![i] = "send_ready"]
            /\ UNCHANGED <<running, phase, outcome, linked, polling, queue,
                           notified, ch1, parked1>>
       [] pc[i] = "send_ready" /\ ~parked1 ->
            /\ ch1' = DoSend(ch1, hold[i])
            /\ parked1' = ParkAfterSend(ch1)
            /\ hold' = [hold EXCEPT ![i] = 0]
            /\ pc' = [pc EXCEPT ![i] = "send_flush"]
            /\ queue' = Enqueue(queue, Waiter("forwarder", {"await_rx1"}))
            /\ notified' = (notified \/ CanWake(Waiter("forwarder", {"await_rx1"})))
            /\ UNCHANGED <<running, phase, outcome, linked, polling, due>>
       [] pc[i] = "send_flush" /\ ~parked1 ->
            /\ pc' = [pc EXCEPT ![i] = "await_tick"]
            /\ UNCHANGED <<running, phase, outcome, linked, polling, queue,
                           notified, ch1, parked1, due, hold>>
       [] OTHER ->
            /\ Suspend(i)
            /\ UNCHANGED <<queue, notified, pc, ch1, parked1, due, hold>>
  /\ UNCHANGED <<variants, entries, fired, ticks, ch2, parked2, printed>>

\* Mutant: an empty channel ends the stream.
StreamEndedWhenEmpty(ch) == ch = <<>>

\* rx.next() on an empty channel yields None, which ends the `while let`
\* loop, only once every sender is dropped: tx1 and tx2 are locals of main
\* that the operations borrow, so they outlive the race.
StreamEnded(ch) == FALSE

\* async { while let Some(instant) = rx1.next().await { tx2.send(instant).await; } }
\* rx1.next() takes a message and unparks tx1.
ForwarderStep(i) ==
  /\ running = i
  /\ entries[i].kind = "forwarder"
  /\ CASE pc[i] = "start" ->
            /\ pc' = [pc EXCEPT ![i] = "await_rx1"]
            /\ UNCHANGED <<running, phase, outcome, linked, polling, queue,
                           notified, ch1, parked1, ch2, parked2, hold>>
       [] pc[i] = "await_rx1" /\ ch1 # <<>> ->
            /\ hold' = [hold EXCEPT ![i] = Head(ch1)]
            /\ ch1' = Tail(ch1)
            /\ parked1' = FALSE
            /\ pc' = [pc EXCEPT ![i] = "send_ready"]
            /\ queue' = IF parked1
                        THEN Enqueue(queue, Waiter("generator", {"send_ready", "send_flush"}))
                        ELSE queue
            /\ notified' = (notified \/
                            (parked1 /\ CanWake(Waiter("generator", {"send_ready", "send_flush"}))))
            /\ UNCHANGED <<running, phase, outcome, linked, polling, ch2, parked2>>
       [] pc[i] = "await_rx1" /\ ch1 = <<>> /\ StreamEnded(ch1) ->
            /\ Complete(i)
            /\ UNCHANGED <<notified, ch1, parked1, ch2, parked2, hold>>
       [] pc[i] = "send_ready" /\ ~parked2 ->
            /\ ch2' = DoSend(ch2, hold[i])
            /\ parked2' = ParkAfterSend(ch2)
            /\ hold' = [hold EXCEPT ![i] = 0]
            /\ pc' = [pc EXCEPT ![i] = "send_flush"]
            /\ queue' = Enqueue(queue, Waiter("reader", {"await_rx2"}))
            /\ notified' = (notified \/ CanWake(Waiter("reader", {"await_rx2"})))
            /\ UNCHANGED <<running, phase, outcome, linked, polling, ch1, parked1>>
       [] pc[i] = "send_flush" /\ ~parked2 ->
            /\ pc' = [pc EXCEPT ![i] = "await_rx1"]
            /\ UNCHANGED <<running, phase, outcome, linked, polling, queue,
                           notified, ch1, parked1, ch2, parked2, hold>>
       [] OTHER ->
            /\ Suspend(i)
            /\ UNCHANGED <<queue, notified, pc, ch1, parked1, ch2, parked2, hold>>
  /\ UNCHANGED <<variants, entries, fired, ticks, due, printed>>

\* async { while let Some(instant) = rx2.next().await { println!(...); } }
ReaderStep(i) ==
  /\ running = i
  /\ entries[i].kind = "reader"
  /\ IF ch2 # <<>>
     THEN /\ pc' = [pc EXCEPT ![i] = "await_rx2"]
          /\ printed' = Append(printed, Head(ch2))
          /\ ch2' = Tail(ch2)
          /\ parked2' = FALSE
          /\ queue' = IF parked2
                      THEN Enqueue(queue, Waiter("forwarder", {"send_ready", "send_flush"}))
                      ELSE queue
          /\ notified' = (notified \/
                          (parked2 /\ CanWake(Waiter("forwarder", {"send_ready", "send_flush"}))))
          /\ UNCHANGED <<running, phase, outcome, linked, polling>>
     ELSE /\ IF StreamEnded(ch2)
             THEN Complete(i)
             ELSE /\ pc' = [pc EXCEPT ![i] = "await_rx2"]
                  /\ Suspend(i)
                  /\ UNCHANGED queue
          /\ UNCHANGED <<notified, ch2, parked2, printed>>
  /\ UNCHANGED <<variants, entries, fired, ticks, due, hold, ch1, parked1>>

\* Interval: one more period elapses and wakes the generator waiting for it.
Tick ==
  /\ \E i \in 1..N : entries[i].kind = "generator"
  /\ ticks < MaxTicks
  /\ ticks' = ticks + 1
  /\ due' = due + 1
  /\ queue' = Enqueue(queue, Waiter("generator", {"await_tick"}))
  /\ notified' = (notified \/ CanWake(Waiter("generator", {"await_tick"})))
  /\ UNCHANGED <<variants, entries, phase, linked, running, polling, pc,
                 outcome, fired, hold, ch1, ch2, parked1, parked2, printed>>

\* The timer: the deadline of the delay that operation i awaits elapses and
\* wakes its task.
Elapse(i) ==
  /\ i \in linked
  /\ pc[i] = "await_delay"
  /\ i \notin fired
  /\ fired' = fired \cup {i}
  /\ queue' = Enqueue(queue, i)
  /\ notified' = (notified \/ CanWake(i))
  /\ UNCHANGED <<variants, entries, phase, linked, running, polling, pc,
                 outcome, ticks, due, hold, ch1, ch2, parked1, parked2, printed>>

Next ==
  \/ LinkFutures
  \/ Await
  \/ Repoll
  \/ Dequeue
  \/ QueueEmpty
  \/ \E i \in 1..N : ReadyStep(i)
  \/ \E i \in 1..N : NeverStep(i)
  \/ \E i \in 1..N : DelayStep(i)
  \/ \E i \in 1..N : GeneratorStep(i)
  \/ \E i \in 1..N : ForwarderStep(i)
  \/ \E i \in 1..N : ReaderStep(i)
  \/ \E i \in 1..N : Elapse(i)
  \/ Tick

Spec == Init /\ [][Next]_vars

\* The program and its executor keep running: the macro is expanded, the
\* combined future is awaited, and block_on polls it to the end of each poll
\* and again whenever it was woken.  Nothing is assumed of the timers.
Drive ==
  \/ LinkFutures
  \/ Await
  \/ Repoll
  \/ Dequeue
  \/ QueueEmpty
  \/ \E i \in 1..N : ReadyStep(i) \/ NeverStep(i) \/ DelayStep(i)
  \/ \E i \in 1..N : GeneratorStep(i) \/ ForwarderStep(i) \/ ReaderStep(i)

FairSpec == Spec /\ WF_vars(Drive)

\* Mutant: dropping the combined future detaches the task set, which goes
\* on being polled.
DropDetaches ==
  /\ phase \in {"built", "racing"}
  /\ ~polling
  /\ phase' = "dropped"
  /\ polling' = TRUE
  /\ UNCHANGED <<variants, entries, linked, queue, running, notified, pc,
                 outcome, fired, ticks, due, hold, ch1, ch2, parked1, parked2,
                 printed>>

\* The owner drops the combined future between two polls: the async move
\* block owns `linked`, so the set and every task in it are dropped with it.
DropLinked ==
  /\ phase \in {"built", "racing"}
  /\ ~polling
  /\ phase' = "dropped"
  /\ linked' = {}
  /\ queue' = <<>>
  /\ UNCHANGED <<variants, entries, running, polling, notified, pc, outcome,
                 fired, ticks, due, hold, ch1, ch2, parked1, parked2, printed>>

\* The program with an owner that may drop the combined future.
NextDrop ==
  \/ Next
  \/ DropLinked

DropSpec == Init /\ [][NextDrop]_vars

----------------------------------------------------------------------------
\* The operations that complete when polled now.
WouldFinish(i) ==
  \/ entries[i].kind = "ready"
  \/ entries[i].kind = "delay" /\ i \in fired

\* The pair the caller must get when the operation of entry i wins.
PairOf(i) == [id |-> entries[i].key, result |-> entries[i].val]

\* C1: a race over N >= 1 operations returns at most one (identifier,
\* result) pair, a completed race has returned exactly one, its identifier
\* is a declared case name, and the race never panics instead.
ExactlyOnePair ==
  N >= 1 =>
    /\ Len(outcome) <= 1
    /\ (phase = "completed") = (Len(outcome) = 1)
    /\ phase # "panicked"
    /\ \A k \in DOMAIN outcome : outcome[k].id \in Range(variants)

ExactlyOnePairWitness ==
  /\ N >= 2
  /\ phase = "completed"
  /\ Len(outcome) = 1
  /\ \E i, j \in 1..N : i # j /\ WouldFinish(i) /\ WouldFinish(j)

\* The operations that can complete at all: the others wait forever.
Completers == {i \in 1..N : entries[i].kind \in {"ready", "delay"}}

\* C2: when one operation only can complete, a completed race has returned
\* that operation's identifier and value, wherever it was registered; and
\* once that operation is able to complete the race does complete.
CorrectAttribution ==
  /\ [](\A i \in 1..N :
          (Completers = {i} /\ phase = "completed") => outcome = <<PairOf(i)>>)
  /\ ((\E i \in 1..N : Completers = {i} /\ WouldFinish(i)) ~> (phase = "completed"))

\* {Never, Stop} of the tests: Never is registered first, Stop wins with ().
CorrectAttributionWitness ==
  /\ variants = SimpleBlock
  /\ Len(entries) = 2
  /\ entries[1] = [key |-> "Never", kind |-> "never", val |-> "unit"]
  /\ entries[2] = [key |-> "Stop", kind |-> "ready", val |-> "unit"]
  /\ pc[1] = "await_rx"
  /\ phase = "completed"
  /\ outcome = <<[id |-> "Stop", result |-> "unit"]>>

\* C3: once a race over N >= 2 operations has completed, no operation takes
\* a step: positions, channels, parked senders and printed output stay as
\* they are, and the task set stays empty and unpolled.
Abandonment ==
  [][(N >= 2 /\ phase = "completed") =>
       UNCHANGED <<pc, hold, ch1, ch2, parked1, parked2, printed, outcome,
                   linked, queue, running, polling, phase>>]_vars

\* The race is over while a loser still had work at hand: a message in
\* channel 1 and a tick the generator never took.
AbandonmentWitness ==
  /\ phase = "completed"
  /\ linked = {}
  /\ ch1 # <<>>
  /\ due > 0
  /\ \E i \in 1..N : entries[i].kind = "forwarder" /\ pc[i] = "await_rx1"

\* C4: under an executor that keeps driving the combined future, a race in
\* which some operation is able to complete does complete, wherever the
\* operations that never complete were registered.
RaceCompletes ==
  (\E i \in 1..N : WouldFinish(i)) ~> (phase = "completed")

\* The example's race is over, the three loops registered before the delay.
RaceCompletesWitness ==
  /\ N = 4
  /\ entries[4].kind = "delay"
  /\ \A i \in 1..3 : pc[i] \notin {"start", "done"}
  /\ phase = "completed"

\* C5: a race over no operation is never suspended and never completes: its
\* first poll panics.
EmptyRaceFailsFast ==
  /\ [](N = 0 => /\ phase # "completed"
                 /\ phase = "racing" => polling
                 /\ ~notified)
  /\ ((N = 0) ~> (phase = "panicked"))

EmptyRaceFailsFastWitness == N = 0 /\ phase = "panicked" /\ outcome = <<>>

\* C6: whenever the task being polled finishes, the race completes with
\* that task's identifier and its result as produced, a failure like any
\* other value; and only a race over no operation panics.
FailureTransparency ==
  /\ [][\A i \in 1..N :
          (running = i /\ WouldFinish(i) /\ running' # i) =>
            (phase' = "completed" /\ outcome' = <<PairOf(i)>>)]_vars
  /\ [](phase = "panicked" => N = 0)

\* A failure won, ahead of an operation that was ready with a success.
FailureTransparencyWitness ==
  /\ phase = "completed"
  /\ \E i, j \in 1..N :
       /\ i < j
       /\ pc[i] = "done"
       /\ entries[i].val = "Err"
       /\ entries[j] = [key |-> entries[j].key, kind |-> "ready", val |-> "unit"]
       /\ outcome = <<[id |-> entries[i].key, result |-> "Err"]>>

\* The race of the documented example.
DocExample == variants = PeriodicStoppableSender

\* C7: in the example's race only the Stop operation ever finishes, a
\* completed race has returned (Stop, ()), and once the delay has elapsed
\* the race does return it, whatever ticks occurred.
StopAlwaysWins ==
  /\ [](DocExample =>
          /\ phase # "panicked"
          /\ \A i \in 1..N : pc[i] = "done" => entries[i].key = "Stop"
          /\ phase = "completed" => outcome = <<[id |-> "Stop", result |-> "unit"]>>)
  /\ ((DocExample /\ fired # {}) ~>
        (phase = "completed" /\ outcome = <<[id |-> "Stop", result |-> "unit"]>>))

\* The example as written (Generator, Forwarder, Reader, Stop), completed
\* after every tick occurred and an instant went through both channels.
StopAlwaysWinsWitness ==
  /\ DocExample
  /\ [i \in 1..N |-> entries[i].key] = <<"Generator", "Forwarder", "Reader", "Stop">>
  /\ ticks >= 2
  /\ printed # <<>>
  /\ phase = "completed"
  /\ outcome = <<[id |-> "Stop", result |-> "unit"]>>

\* C8: an awaited race over N >= 1 operations is racing or completed; it
\* completes from racing, at most once and with exactly one pair, and a
\* completed race keeps its phase and its outcome.
TwoStates ==
  [][/\ phase = "completed" => (phase' = "completed" /\ outcome' = outcome)
     /\ outcome' # outcome =>
          (phase = "racing" /\ phase' = "completed" /\ outcome = <<>> /\ Len(outcome') = 1)
     /\ (phase # "completed" /\ phase' = "completed") => outcome' # outcome
     /\ (N >= 1 /\ phase = "racing") => phase' \in {"racing", "completed"}]_vars

\* A completed race whose waker was woken during its last poll.
TwoStatesWitness == N >= 1 /\ phase = "completed" /\ notified

\* The tasks of the set that would finish if polled now.
ReadyOps == {j \in linked : WouldFinish(j)}

\* C9 as claimed: when two or more operations are ready in the poll that
\* completes the race, the winner is the one registered first among them.
\* (~notified: no task was woken since that poll began, so every ready
\* operation was ready from its start.)
TieBreakFirstRegistered ==
  [][(/\ phase = "racing"
      /\ phase' = "completed"
      /\ ~notified
      /\ Cardinality(ReadyOps) >= 2) =>
       \A j \in ReadyOps : running <= j]_vars

\* C9 amended: the winner is the ready operation that reached the head of
\* the ready-to-run queue first.  The queue is first-in first-out, holds the
\* tasks in registration order when the race is built and takes a woken
\* task at its back; as the race completes exactly the winner's pair is
\* returned and every other ready operation is still queued, unpolled.
TieBreakQueueOrder ==
  [][/\ (phase = "racing" /\ phase' = "completed") =>
          /\ running \in ReadyOps
          /\ outcome' = <<PairOf(running)>>
          /\ \A j \in ReadyOps \ {running} : j \in Range(queue)
     /\ (phase = "declared" /\ phase' = "built") => queue' = [i \in 1..N |-> i]
     /\ (running = 0 /\ running' # 0) =>
          (running' = Head(queue) /\ queue' = Tail(queue))
     /\ \A j \in 1..N :
          (phase = "racing" /\ j \notin Range(queue) /\ j \in Range(queue')) =>
            queue' = Append(queue, j)]_vars

\* Two delays had elapsed before the last poll began, and the one
\* registered later won.
TieBreakWitness ==
  /\ phase = "completed"
  /\ ~notified
  /\ \E i, j \in 1..N :
       /\ i < j
       /\ {i, j} \subseteq fired
       /\ pc[i] = "await_delay"
       /\ pc[j] = "done"
       /\ outcome = <<PairOf(j)>>

\* C11: the one-of type and the identifier enum have the same names in the
\* same order; every task is wrapped in a variant of the one and tagged with
\* the value of the other that has the same name; and the identifier
\* returned with a result is the case under which the operation that
\* produced it was registered.
TagMatchesCase ==
  /\ OneOf(variants) = IdentifierEnum(variants)
  /\ \A i \in 1..N :
       /\ Variant(i) \in Range(OneOf(variants))
       /\ Identifier(i) \in Range(IdentifierEnum(variants))
       /\ Identifier(i) = Variant(i)
  /\ \A k \in DOMAIN outcome :
       \E i \in 1..N :
         /\ pc[i] = "done"
         /\ outcome[k].id = Variant(i)
         /\ outcome[k].result = entries[i].val

\* The winner was registered at another position than its case is declared.
TagMatchesCaseWitness ==
  /\ phase = "completed"
  /\ \E i \in 1..N :
       /\ i > 1
       /\ pc[i] = "done"
       /\ variants[i] # entries[i].key
       /\ outcome = <<[id |-> entries[i].key, result |-> entries[i].val]>>

\* The shape with the single case Only.
OnlyCase == variants = <<"Only">>

\* C12: in a race over the single case Only the race is completed exactly
\* when its operation has finished, what it returned is (Only, that
\* operation's result) and nothing else, it never panics, and once the
\* operation is able to finish the race does complete.
SingleCase ==
  /\ [](OnlyCase =>
          /\ (phase = "completed") = (pc[1] = "done")
          /\ Len(outcome) <= 1
          /\ phase = "completed" => outcome = <<[id |-> "Only", result |-> entries[1].val]>>
          /\ phase # "panicked")
  /\ ((OnlyCase /\ WouldFinish(1)) ~> (phase = "completed"))

\* The single operation was a delay that failed once its deadline elapsed.
SingleCaseWitness ==
  /\ OnlyCase
  /\ entries[1].kind = "delay"
  /\ phase = "completed"
  /\ outcome = <<[id |-> "Only", result |-> "Err"]>>

\* C13: the race returns a pair only for an operation that has itself
\* finished (a ready block, or a delay whose deadline elapsed), and the pair
\* is that operation's; a race whose operations all wait forever never
\* completes and never panics.
NoSpuriousCompletion ==
  /\ phase = "completed" => outcome # <<>>
  /\ outcome # <<>> =>
       \E i \in 1..N :
         /\ pc[i] = "done"
         /\ entries[i].kind \in {"ready", "delay"}
         /\ entries[i].kind = "delay" => i \in fired
         /\ outcome = <<PairOf(i)>>
  /\ (N >= 1 /\ Completers = {}) =>
       /\ phase \in {"declared", "built", "racing"}
       /\ outcome = <<>>

\* Two operations that never finish were both polled and the race is
\* suspended.
NoSpuriousCompletionWitness ==
  /\ N >= 2
  /\ Completers = {}
  /\ phase = "racing"
  /\ ~polling
  /\ \A i \in 1..N : pc[i] = "await_rx"

\* The operation of entry i, polled now, would get past the point it is at.
CanStep(i) ==
  CASE entries[i].kind = "ready" -> TRUE
    [] entries[i].kind = "never" -> FALSE
    [] entries[i].kind = "delay" -> i \in fired
    [] entries[i].kind = "generator" ->
         \/ pc[i] = "await_tick" /\ due > 0
         \/ pc[i] \in {"send_ready", "send_flush"} /\ ~parked1
    [] entries[i].kind = "forwarder" ->
         \/ pc[i] = "await_rx1" /\ ch1 # <<>>
         \/ pc[i] \in {"send_ready", "send_flush"} /\ ~parked2
    [] entries[i].kind = "reader" -> ch2 # <<>>

\* The operation was polled and waits at one of its own suspension points.
Suspended(i) == pc[i] # "start" /\ ~CanStep(i)

\* The largest number of operations of a race.
MaxOps == Len(PeriodicStoppableSender)

\* The operation of entry i is in the racing set and was never polled.
Unpolled(i) ==
  IF i \in linked THEN phase = "racing" /\ pc[i] = "start" ELSE FALSE

\* The operation of entry i is in the racing set, was polled, and is able
\* to go on.
AbleToGoOn(i) ==
  IF i \in linked THEN phase = "racing" /\ pc[i] # "start" /\ CanStep(i) ELSE FALSE

\* The operation of entry i has been polled at least once.
Polled(i) == IF i \in 1..N THEN pc[i] # "start" ELSE FALSE

\* C14: a poll of the combined future ends suspended only when every
\* operation of the set was polled and is suspended at a point of its own;
\* every operation of a racing set gets its first poll, and one that is able
\* to go on is polled, unless the race completes first, wherever it was
\* registered.
InterleavedProgress ==
  /\ [][(polling /\ ~polling' /\ phase' = "racing") =>
          \A i \in linked' : Suspended(i)']_vars
  /\ \A i \in 1..MaxOps :
       Unpolled(i) ~> (Polled(i) \/ phase = "completed")
  /\ \A i \in 1..MaxOps :
       AbleToGoOn(i) ~> (running = i \/ phase = "completed")

\* The poll of the example's race went past the suspended forwarder and
\* reader, registered first, ran the generator that had a tick to send, and
\* ended with all four operations suspended.
InterleavedProgressWitness ==
  /\ DocExample
  /\ phase = "racing"
  /\ ~polling
  /\ printed # <<>>
  /\ \E i \in 1..N : entries[i].kind = "generator" /\ i > 2
  /\ \A i \in linked : Suspended(i)

\* The race is suspended and nothing has woken it since its last poll began.
Idle == phase = "racing" /\ ~polling /\ ~notified

\* C15: a suspended race that was not woken holds no task to run and takes
\* no step (only timers move); and an operation that was polled before is
\* polled again only when the event it waited for has happened.
NoBusyWait ==
  /\ [](Idle => queue = <<>> /\ running = 0)
  /\ [][Idle => UNCHANGED <<phase, linked, running, polling, pc, outcome,
                             hold, ch1, ch2, parked1, parked2, printed>>]_vars
  /\ [][\A i \in 1..N :
          (running = 0 /\ running' = i /\ pc[i] # "start") => CanStep(i)]_vars

\* The example's race printed a tick, so its operations were woken and
\* polled again, and it is suspended with nothing to run.
NoBusyWaitWitness ==
  /\ DocExample
  /\ Idle
  /\ printed # <<>>
  /\ ticks < MaxTicks

\* C16: from the expansion of link_futures! to the completion of the race
\* the task set holds exactly the N registered operations; it changes only
\* when it is built and when the race completes, where the winner leaves it
\* and the set goes with the block.
TaskSetFixed ==
  /\ [](phase \in {"built", "racing"} => linked = 1..N)
  /\ [][linked' # linked =>
          \/ phase = "declared" /\ phase' = "built" /\ linked' = 1..N
          \/ /\ phase = "racing"
             /\ phase' = "completed"
             /\ linked' = {}
             /\ running \in linked
             /\ pc[running] # "done"
             /\ pc'[running] = "done"
             /\ \A j \in 1..N : j # running => pc'[j] = pc[j]]_vars

\* The example's race is suspended after its delay elapsed and a tick was
\* printed, with its four tasks still in the set.
TaskSetFixedWitness ==
  /\ DocExample
  /\ phase = "racing"
  /\ fired # {}
  /\ printed # <<>>
  /\ Cardinality(linked) = 4

\* No operation has taken a step and nothing of the program has changed.
Untouched ==
  /\ \A i \in 1..N : pc[i] = "start" /\ hold[i] = 0
  /\ running = 0
  /\ ~polling
  /\ ~notified
  /\ outcome = <<>>
  /\ fired = {}
  /\ due = ticks
  /\ ch1 = <<>> /\ ch2 = <<>>
  /\ ~parked1 /\ ~parked2
  /\ printed = <<>>

\* C17: expanding link_futures! only registers the operations: until the
\* combined future is awaited no operation has taken a step and nothing
\* observable has happened, however long the built race is kept; and each
\* operation takes its first step as the task being polled in a poll of the
\* racing block.
BuildIsLazy ==
  /\ [](phase \in {"declared", "built"} => Untouched)
  /\ [][\A i \in 1..N :
          (pc[i] = "start" /\ pc'[i] # "start") =>
            phase = "racing" /\ polling /\ running = i]_vars

\* The example's race was built and left unawaited while every tick of the
\* interval passed.
BuildIsLazyWitness ==
  /\ DocExample
  /\ phase = "built"
  /\ linked = 1..N
  /\ ticks = MaxTicks

\* C18: once the combined future is dropped, built or racing, the task set
\* is gone with all its operations: no pair was or is ever returned, no
\* operation takes a step, no delay of the set fires, and nothing is sent,
\* received or printed any more.
DropAbandons ==
  /\ [](phase = "dropped" =>
          /\ outcome = <<>>
          /\ linked = {}
          /\ queue = <<>>
          /\ running = 0
          /\ ~polling)
  /\ [][phase = "dropped" =>
          UNCHANGED <<phase, linked, queue, running, polling, pc, outcome,
                      fired, hold, ch1, ch2, parked1, parked2, printed>>]_vars

\* The example's race was dropped while suspended, after its delay had
\* elapsed and woken it: the Stop operation was ready and never ran, and the
\* interval kept ticking afterwards.
DropAbandonsWitness ==
  /\ DocExample
  /\ phase = "dropped"
  /\ notified
  /\ fired # {}
  /\ \E i \in 1..N : pc[i] = "await_delay"
  /\ outcome = <<>>
  /\ due > 0

====
